---------------------------- MODULE Spec2Model ----------------------------
(***************************************************************************)
(* A model of the eui crate (src/src/lib.rs): the two address types EUI48  *)
(* and EUI64, the three formatting methods of trait EUI and the two        *)
(* TryFrom<&str> implementations.                                          *)
(*                                                                         *)
(* A &str is modelled as the sequence of its UTF-8 bytes (naturals in      *)
(* 0..255), which is what str::replace and hex::decode work on.  A         *)
(* String produced by format! is modelled the same way.                    *)
(*                                                                         *)
(* hex::decode is the decoder of the crate `hex` (FromHex for Vec<u8>) in  *)
(* the versions whose FromHexError has exactly the three variants matched  *)
(* at lib.rs:17-21: it tests the byte length for oddness first, then       *)
(* decodes pair by pair, left to right, stopping at the first bad byte.    *)
(***************************************************************************)
EXTENDS Naturals, Sequences, FiniteSets

VARIABLES
    s,       \* the &str handed to try_from (UTF-8 bytes)
    pc,      \* the position of the caller
    parsed,  \* the value returned by try_from(s), with the target type
    eui,     \* the address at hand (constructed, or parsed from s)
    text,    \* the String returned by the last to_*_fmt call
    back     \* the value returned by try_from(text) of eui's own type

vars == <<s, pc, parsed, eui, text, back>>

----------------------------------------------------------------------------
(* Values *)

\* struct EUI48([u8; 6]), struct EUI64([u8; 8])
EUI48Len == 6
EUI64Len == 8

EUI48(bytes) == [type |-> "EUI48", bytes |-> bytes]
EUI64(bytes) == [type |-> "EUI64", bytes |-> bytes]

\* enum Error
Error == {"InvalidHexCharacter", "InvalidStringLength", "OddLength"}

\* Result<_, _>, plus the outcome "Panic" of a call that does not return
Ok(v)  == [tag |-> "Ok",    val |-> v,    err |-> ""]
Err(e) == [tag |-> "Err",   val |-> <<>>, err |-> e]
Panic  == [tag |-> "Panic", val |-> <<>>, err |-> ""]

\* hex::FromHexError; InvalidHexCharacter carries the byte and its index
FromHexError(kind, c, index) == [kind |-> kind, c |-> c, index |-> index]

\* impl From<hex::FromHexError> for Error: the payload is dropped
Error_from(e) ==
    CASE e.kind = "InvalidHexCharacter" -> "InvalidHexCharacter"
      [] e.kind = "InvalidStringLength" -> "InvalidStringLength"
      [] e.kind = "OddLength"           -> "OddLength"

\* EUI::to_bytes
to_bytes(self) == self.bytes


----------------------------------------------------------------------------
(* Formatting: trait EUI *)

\* The digits of n in base 16, most significant first, as core::fmt's UpperHex
\* writes them: b'0' + d for d < 10, b'A' + (d - 10) otherwise.
RECURSIVE UpperHex(_)
UpperHex(n) ==
    LET d == n % 16
        c == IF d < 10 THEN 48 + d ELSE 65 + (d - 10)
    IN  IF n < 16 THEN <<c>> ELSE UpperHex(n \div 16) \o <<c>>

\* The same with lower-case letters ({:x}).
RECURSIVE LowerHex(_)
LowerHex(n) ==
    LET d == n % 16
        c == IF d < 10 THEN 48 + d ELSE 97 + (d - 10)
    IN  IF n < 16 THEN <<c>> ELSE LowerHex(n \div 16) \o <<c>>

\* Flag 0, width w: '0' is written in front until the width is reached.
RECURSIVE ZeroPad(_, _)
ZeroPad(str, w) == IF Len(str) >= w THEN str ELSE ZeroPad(<<48>> \o str, w)

\* A formatter that forgets the width: {:X}.
fmt_02X_NoPad(n) == UpperHex(n)

\* A formatter that writes lower case: {:02x}.
fmt_02X_Lower(n) == ZeroPad(LowerHex(n), 2)

\* format!("{:02X}", new)
fmt_02X(n) == ZeroPad(UpperHex(n), 2)

\* slice::chunks(n): consecutive pieces of n elements, the last one shorter
\* when the length is no multiple of n
RECURSIVE chunks(_, _)
chunks(seq, n) ==
    IF seq = <<>> THEN <<>>
    ELSE IF Len(seq) <= n THEN <<seq>>
    ELSE <<SubSeq(seq, 1, n)>> \o chunks(SubSeq(seq, n + 1, Len(seq)), n)

\* EUI::to_canonical_fmt.  acc[i] is the accumulator of the fold after i
\* bytes; String::new() is the empty string.
to_canonical_fmt(self) ==
    LET bytes == to_bytes(self)
        acc[i \in 0..Len(bytes)] ==
            IF i = 0 THEN <<>>
            ELSE IF acc[i - 1] = <<>> THEN fmt_02X(bytes[i])
            ELSE acc[i - 1] \o <<45>> \o fmt_02X(bytes[i])
    IN  Ok(acc[Len(bytes)])

\* EUI::to_colon_fmt
to_colon_fmt(self) ==
    LET bytes == to_bytes(self)
        acc[i \in 0..Len(bytes)] ==
            IF i = 0 THEN <<>>
            ELSE IF acc[i - 1] = <<>> THEN fmt_02X(bytes[i])
            ELSE acc[i - 1] \o <<58>> \o fmt_02X(bytes[i])
    IN  Ok(acc[Len(bytes)])

\* to_dot_fmt with the two bytes of a group written in the wrong order.
to_dot_fmt_Swapped(self) ==
    LET chunk == chunks(to_bytes(self), 2)
        acc[i \in 0..Len(chunk)] ==
            IF i = 0 THEN <<>>
            ELSE IF acc[i - 1] = <<>>
            THEN fmt_02X(chunk[i][2]) \o fmt_02X(chunk[i][1])
            ELSE acc[i - 1] \o <<46>> \o fmt_02X(chunk[i][2]) \o fmt_02X(chunk[i][1])
    IN  IF \E i \in DOMAIN chunk : Len(chunk[i]) < 2 THEN Panic
        ELSE Ok(acc[Len(chunk)])

\* EUI::to_dot_fmt.  new[0] exists in every chunk; new[1] is an index out of
\* bounds, a panic, in a chunk of one element.
to_dot_fmt(self) ==
    LET chunk == chunks(to_bytes(self), 2)
        acc[i \in 0..Len(chunk)] ==
            IF i = 0 THEN <<>>
            ELSE IF acc[i - 1] = <<>>
            THEN fmt_02X(chunk[i][1]) \o fmt_02X(chunk[i][2])
            ELSE acc[i - 1] \o <<46>> \o fmt_02X(chunk[i][1]) \o fmt_02X(chunk[i][2])
    IN  IF \E i \in DOMAIN chunk : Len(chunk[i]) < 2 THEN Panic
        ELSE Ok(acc[Len(chunk)])

----------------------------------------------------------------------------
(* Parsing: TryFrom<&str> *)

\* str::replace with only two of the three separators in the pattern.
RECURSIVE str_replace_NoDot(_)
str_replace_NoDot(str) ==
    IF str = <<>> THEN <<>>
    ELSE IF Head(str) \in {58, 45} THEN str_replace_NoDot(Tail(str))
    ELSE <<Head(str)>> \o str_replace_NoDot(Tail(str))

\* s.replace(&['.', ':', '-'][..], ""): every '.', ':' and '-' is replaced
\* by the empty string.  The three are ASCII, so no byte of a multi-byte
\* character matches.
RECURSIVE str_replace(_)
str_replace(str) ==
    IF str = <<>> THEN <<>>
    ELSE IF Head(str) \in {46, 58, 45} THEN str_replace(Tail(str))
    ELSE <<Head(str)>> \o str_replace(Tail(str))

\* hex's val accepting upper-case letters and digits only.
val_NoLower(c, idx) ==
    IF c \in 65..70 THEN Ok(c - 65 + 10)
    ELSE IF c \in 48..57 THEN Ok(c - 48)
    ELSE Err(FromHexError("InvalidHexCharacter", c, idx))

\* hex's val forgetting the + 10 of the upper-case letters.
val_NoTen(c, idx) ==
    IF c \in 65..70 THEN Ok(c - 65)
    ELSE IF c \in 97..102 THEN Ok(c - 97 + 10)
    ELSE IF c \in 48..57 THEN Ok(c - 48)
    ELSE Err(FromHexError("InvalidHexCharacter", c, idx))

\* hex: fn val(c: u8, idx: usize) -> Result<u8, FromHexError>
val(c, idx) ==
    IF c \in 65..70 THEN Ok(c - 65 + 10)
    ELSE IF c \in 97..102 THEN Ok(c - 97 + 10)
    ELSE IF c \in 48..57 THEN Ok(c - 48)
    ELSE Err(FromHexError("InvalidHexCharacter", c, idx))

\* The pairs of an even-length string decoded left to right from pair i on
\* (0-based); the first error ends the decoding (collect into a Result).
RECURSIVE decode_pairs(_, _)
decode_pairs(hex, i) ==
    IF 2 * i >= Len(hex) THEN Ok(<<>>)
    ELSE LET hi == val(hex[2 * i + 1], 2 * i)
             lo == val(hex[2 * i + 2], 2 * i + 1)
         IN  IF hi.tag = "Err" THEN hi
             ELSE IF lo.tag = "Err" THEN lo
             ELSE LET rest == decode_pairs(hex, i + 1)
                  IN  IF rest.tag = "Err" THEN rest
                      ELSE Ok(<<(hi.val * 16 + lo.val) % 256>> \o rest.val)

\* A decoder that scans left to right and notices the odd length only at
\* the last, unpaired byte.
RECURSIVE hex_decode_Scan(_)
hex_decode_Scan(hex) ==
    IF hex = <<>> THEN Ok(<<>>)
    ELSE IF Len(hex) = 1
    THEN (IF val(hex[1], 0).tag = "Err" THEN val(hex[1], 0)
          ELSE Err(FromHexError("OddLength", 0, 0)))
    ELSE LET hi == val(hex[1], 0)
             lo == val(hex[2], 1)
         IN  IF hi.tag = "Err" THEN hi
             ELSE IF lo.tag = "Err" THEN lo
             ELSE LET rest == hex_decode_Scan(SubSeq(hex, 3, Len(hex)))
                  IN  IF rest.tag = "Err" THEN rest
                      ELSE Ok(<<(hi.val * 16 + lo.val) % 256>> \o rest.val)

\* hex::decode(s): Vec<u8>::from_hex
hex_decode(hex) ==
    IF Len(hex) % 2 # 0 THEN Err(FromHexError("OddLength", 0, 0))
    ELSE decode_pairs(hex, 0)

\* From<FromHexError> reporting an odd length as a wrong length.
map_err_OddAsLength(r) ==
    IF r.tag = "Err"
    THEN Err(IF r.err.kind = "OddLength" THEN "InvalidStringLength"
             ELSE Error_from(r.err))
    ELSE r

\* Result::map_err(Error::from)
map_err(r) == IF r.tag = "Err" THEN Err(Error_from(r.err)) ELSE r

\* [T]::copy_from_slice: panics unless the two slices have the same length
copy_from_slice(dst, src) == IF Len(dst) # Len(src) THEN Panic ELSE Ok(src)

\* <[u8; n]>::default()
Default(n) == [i \in 1..n |-> 0]

\* try_from of EUI48 rejecting only the strings that are too short.
EUI48_try_from_Less(str) ==
    LET stripped == str_replace(str)
        bytes    == map_err(hex_decode(stripped))
    IN  IF bytes.tag = "Err" THEN bytes
        ELSE IF Len(bytes.val) < EUI48Len THEN Err("InvalidStringLength")
        ELSE LET raw_address == copy_from_slice(Default(EUI48Len), bytes.val)
             IN  IF raw_address.tag = "Panic" THEN Panic
                 ELSE Ok(EUI48(raw_address.val))

\* impl TryFrom<&str> for EUI48
EUI48_try_from(str) ==
    LET stripped == str_replace(str)
        bytes    == map_err(hex_decode(stripped))
    IN  IF bytes.tag = "Err" THEN bytes
        ELSE IF Len(bytes.val) # EUI48Len THEN Err("InvalidStringLength")
        ELSE LET raw_address == copy_from_slice(Default(EUI48Len), bytes.val)
             IN  IF raw_address.tag = "Panic" THEN Panic
                 ELSE Ok(EUI48(raw_address.val))

\* try_from of EUI64 copied from EUI48's with the 6 left in the check.
EUI64_try_from_Six(str) ==
    LET stripped == str_replace(str)
        bytes    == map_err(hex_decode(stripped))
    IN  IF bytes.tag = "Err" THEN bytes
        ELSE IF Len(bytes.val) # EUI48Len THEN Err("InvalidStringLength")
        ELSE LET raw_address == copy_from_slice(Default(EUI64Len), bytes.val)
             IN  IF raw_address.tag = "Panic" THEN Panic
                 ELSE Ok(EUI64(raw_address.val))

\* impl TryFrom<&str> for EUI64
EUI64_try_from(str) ==
    LET stripped == str_replace(str)
        bytes    == map_err(hex_decode(stripped))
    IN  IF bytes.tag = "Err" THEN bytes
        ELSE IF Len(bytes.val) # EUI64Len THEN Err("InvalidStringLength")
        ELSE LET raw_address == copy_from_slice(Default(EUI64Len), bytes.val)
             IN  IF raw_address.tag = "Panic" THEN Panic
                 ELSE Ok(EUI64(raw_address.val))

\* T::try_from for the type named ty
try_from(ty, str) ==
    IF ty = "EUI48" THEN EUI48_try_from(str) ELSE EUI64_try_from(str)

----------------------------------------------------------------------------
(* The strings and addresses the operations are applied to *)

\* The largest number of characters, separators not counted, of a string.
MaxDigits == 17

\* "0A1B2C3D4E5F", "00FF0A1B2C3D4E5F" (the addresses of the tests) and
\* "9f8E7d6C5b4A3210"
DigitPatterns ==
    { <<48, 65, 49, 66, 50, 67, 51, 68, 52, 69, 53, 70>>,
      <<48, 48, 70, 70, 48, 65, 49, 66, 50, 67, 51, 68, 52, 69, 53, 70>>,
      <<57, 102, 56, 69, 55, 100, 54, 67, 53, 98, 52, 65, 51, 50, 49, 48>> }

\* Characters that are no hex digit and no separator, each as its UTF-8
\* bytes: 'x', 'G', 'g', '/', '@', '`', and the two-byte U+00E9.
BadChars ==
    { <<120>>, <<71>>, <<103>>, <<47>>, <<64>>, <<96>>, <<195, 169>> }

\* The first n characters of a pattern repeated for ever.
Digits(pat, n) == [i \in 1..n |-> <<pat[((i - 1) % Len(pat)) + 1]>>]

\* Where one character is replaced by a bad one: none (0), the first two
\* and the last three places.
DefectPlaces(n) == {0} \cup ({1, 2, n - 2, n - 1, n} \cap (1..n))

Layouts == {"none", "canonical", "colon", "dot"}

\* The separator a layout writes in front of character i.
LayoutSep(layout, i) ==
    IF i = 1 THEN <<>>
    ELSE IF layout = "canonical" /\ (i - 1) % 2 = 0 THEN <<45>>
    ELSE IF layout = "colon" /\ (i - 1) % 2 = 0 THEN <<58>>
    ELSE IF layout = "dot" /\ (i - 1) % 4 = 0 THEN <<46>>
    ELSE <<>>

\* Separators out of place: none, "-", "..", ":-."
Strays == { <<>>, <<45>>, <<46, 46>>, <<58, 45, 46>> }

\* Where a stray goes: in front (0), inside the first byte (1), at the
\* end (n).
StrayPlaces(n) == {0, n} \cup ({1} \cap (1..n))

\* The string of n characters of pat, character p (if any) replaced by bad,
\* laid out, with stray written after character q (if any).
BuildInput(pat, n, p, bad, layout, q, stray) ==
    LET chars == [i \in 1..n |-> IF i = p THEN bad ELSE Digits(pat, n)[i]]
        piece[i \in 0..n] ==
            IF i = 0 THEN (IF q = 0 THEN stray ELSE <<>>)
            ELSE piece[i - 1] \o LayoutSep(layout, i) \o chars[i]
                     \o (IF q = i THEN stray ELSE <<>>)
    IN  piece[n]

Inputs ==
    UNION { { BuildInput(pat, n, p, bad, layout, q, stray) :
                  pat \in DigitPatterns, p \in DefectPlaces(n), bad \in BadChars,
                  layout \in Layouts, q \in StrayPlaces(n), stray \in Strays }
            : n \in 0..MaxDigits }

\* The addresses of the tests and the all-zero address, one byte replaced
\* by any u8.
Bases48 == { <<10, 27, 44, 61, 78, 95>>, <<0, 0, 0, 0, 0, 0>> }
Bases64 == { <<0, 255, 10, 27, 44, 61, 78, 95>>, <<0, 0, 0, 0, 0, 0, 0, 0>> }

Addresses ==
    { EUI48([b EXCEPT ![i] = v]) : b \in Bases48, i \in 1..EUI48Len, v \in 0..255 }
    \cup
    { EUI64([b EXCEPT ![i] = v]) : b \in Bases64, i \in 1..EUI64Len, v \in 0..255 }

----------------------------------------------------------------------------
(* The caller *)

NoEUI    == [type |-> "none", bytes |-> <<>>]
NoText   == [fmt |-> "none", res |-> Ok(<<>>)]
\* No call made yet
NoResult == [tag |-> "None", val |-> <<>>, err |-> ""]
NoParse  == [type |-> "none", res |-> NoResult]

\* The caller holds a string to parse, or an address built from its bytes
\* (EUI48([..]), EUI64([..])).
Init ==
    /\ parsed = NoParse
    /\ text = NoText
    /\ back = NoParse
    /\ \/ /\ pc = "str"
          /\ s \in Inputs
          /\ eui = NoEUI
       \/ /\ pc = "new"
          /\ s = <<>>
          /\ eui \in Addresses

\* EUI48::try_from(s)
ParseEUI48 ==
    /\ pc = "str"
    /\ parsed' = [type |-> "EUI48", res |-> EUI48_try_from(s)]
    /\ eui' = IF parsed'.res.tag = "Ok" THEN parsed'.res.val ELSE NoEUI
    /\ pc' = "parsed"
    /\ UNCHANGED <<s, text, back>>

\* EUI64::try_from(s)
ParseEUI64 ==
    /\ pc = "str"
    /\ parsed' = [type |-> "EUI64", res |-> EUI64_try_from(s)]
    /\ eui' = IF parsed'.res.tag = "Ok" THEN parsed'.res.val ELSE NoEUI
    /\ pc' = "parsed"
    /\ UNCHANGED <<s, text, back>>

HasAddress == pc \in {"new", "parsed"} /\ eui # NoEUI

\* eui.to_canonical_fmt()
ToCanonicalFmt ==
    /\ HasAddress
    /\ text' = [fmt |-> "canonical", res |-> to_canonical_fmt(eui)]
    /\ pc' = "formatted"
    /\ UNCHANGED <<s, parsed, eui, back>>

\* eui.to_colon_fmt()
ToColonFmt ==
    /\ HasAddress
    /\ text' = [fmt |-> "colon", res |-> to_colon_fmt(eui)]
    /\ pc' = "formatted"
    /\ UNCHANGED <<s, parsed, eui, back>>

\* eui.to_dot_fmt()
ToDotFmt ==
    /\ HasAddress
    /\ text' = [fmt |-> "dot", res |-> to_dot_fmt(eui)]
    /\ pc' = "formatted"
    /\ UNCHANGED <<s, parsed, eui, back>>

\* try_from(&text) of the address's own type
Reparse ==
    /\ pc = "formatted"
    /\ text.res.tag = "Ok"
    /\ back' = [type |-> eui.type, res |-> try_from(eui.type, text.res.val)]
    /\ pc' = "reparsed"
    /\ UNCHANGED <<s, parsed, eui, text>>

Next ==
    \/ ParseEUI48
    \/ ParseEUI64
    \/ ToCanonicalFmt
    \/ ToColonFmt
    \/ ToDotFmt
    \/ Reparse

Spec == Init /\ [][Next]_vars

----------------------------------------------------------------------------
(* The vocabulary of the properties, defined apart from the code *)

Separators == {46, 58, 45}

\* str with every '.', ':' and '-' deleted
Normalized(str) == SelectSeq(str, LAMBDA c : c \notin Separators)

\* "0123456789ABCDEF" and "0123456789abcdef"
HexUpper == <<48, 49, 50, 51, 52, 53, 54, 55, 56, 57, 65, 66, 67, 68, 69, 70>>
HexLower == <<48, 49, 50, 51, 52, 53, 54, 55, 56, 57, 97, 98, 99, 100, 101, 102>>

IsHexDigit(c) == \E v \in 1..16 : c = HexUpper[v] \/ c = HexLower[v]

AllHex(str) == \A i \in 1..Len(str) : IsHexDigit(str[i])

\* The value of a hex digit
DigitValue(c) == (CHOOSE v \in 1..16 : c = HexUpper[v] \/ c = HexLower[v]) - 1

\* str with each of a-f replaced by A-F
UpperAF(str) ==
    [i \in 1..Len(str) |-> IF str[i] \in 97..102 THEN str[i] - 32 ELSE str[i]]

TargetLen(ty) == IF ty = "EUI48" THEN EUI48Len ELSE EUI64Len

IsOdd(n) == n % 2 = 1

HasSeparator(str) == \E i \in 1..Len(str) : str[i] \in Separators

----------------------------------------------------------------------------
(* Properties *)

\* C1: round trip.  For every address of 6 or of 8 bytes, parsing the output
\* of to_canonical_fmt, to_colon_fmt or to_dot_fmt with try_from of the same
\* type succeeds and yields an address with the same bytes.
C1_RoundTrip ==
    pc = "reparsed" =>
        /\ back.res.tag = "Ok"
        /\ back.res.val.type = eui.type
        /\ back.res.val.bytes = eui.bytes

C1_Witness ==
    /\ pc = "reparsed"
    /\ text.fmt = "dot"
    /\ eui.type = "EUI64"
    /\ eui.bytes[1] = 0
    /\ eui.bytes[2] = 255
    /\ back.res.tag = "Ok"

C3_InvalidStringLengthIff ==
    pc = "parsed" =>
        /\ parsed.res = Err("InvalidStringLength") <=>
               /\ AllHex(Normalized(s))
               /\ ~IsOdd(Len(Normalized(s)))
               /\ Len(Normalized(s)) # 2 * TargetLen(parsed.type)
        /\ parsed.res = Err("InvalidStringLength") =>
               hex_decode(str_replace(s)).tag = "Ok"

C3_Witness ==
    /\ pc = "parsed"
    /\ parsed.type = "EUI48"
    /\ Len(Normalized(s)) = 10
    /\ HasSeparator(s)
    /\ parsed.res = Err("InvalidStringLength")

\* C4: an input that without its separators is an odd number of hex digits
\* gives Err(OddLength), for both types and whatever the number is.
C4_OddLength ==
    (pc = "parsed" /\ AllHex(Normalized(s)) /\ IsOdd(Len(Normalized(s)))) =>
        parsed.res = Err("OddLength")

C4_Witness ==
    /\ pc = "parsed"
    /\ parsed.type = "EUI64"
    /\ AllHex(Normalized(s))
    /\ Len(Normalized(s)) = 2 * EUI64Len + 1
    /\ parsed.res = Err("OddLength")

\* C5: try_from(s) equals try_from of s with every '.', ':' and '-' deleted,
\* wherever the separators stand.
C5_SeparatorsIgnored ==
    pc = "parsed" => parsed.res = try_from(parsed.type, Normalized(s))

C5_Witness ==
    /\ pc = "parsed"
    /\ Len(s) > 2
    /\ s[1] \in Separators
    /\ s[2] \in Separators
    /\ parsed.res.tag = "Ok"

\* C6: try_from(s) equals try_from of s with each of a-f replaced by A-F.
C6_CaseInsensitive ==
    pc = "parsed" => parsed.res = try_from(parsed.type, UpperAF(s))

C6_Witness ==
    /\ pc = "parsed"
    /\ UpperAF(s) # s
    /\ parsed.type = "EUI48"
    /\ parsed.res.tag = "Ok"

\* C7: a string one type accepts is rejected by the other type with
\* Err(InvalidStringLength).
C7_TypeIsolation ==
    (pc = "parsed" /\ parsed.res.tag = "Ok") =>
        /\ parsed.type = "EUI48" =>
               EUI64_try_from(s) = Err("InvalidStringLength")
        /\ parsed.type = "EUI64" =>
               EUI48_try_from(s) = Err("InvalidStringLength")

C7_Witness ==
    /\ pc = "parsed"
    /\ parsed.type = "EUI64"
    /\ parsed.res.tag = "Ok"
    /\ EUI48_try_from(s) = Err("InvalidStringLength")

\* C8: to_canonical_fmt and to_colon_fmt of an address of N bytes return
\* 3N-1 characters: N groups of two upper-case hex digits, the zero-padded
\* value of each byte in order, joined by one '-' (canonical) or ':' (colon).
C8_CanonicalColonShape ==
    (pc = "formatted" /\ text.fmt \in {"canonical", "colon"}) =>
        LET str == text.res.val
            n   == Len(eui.bytes)
            sep == IF text.fmt = "canonical" THEN 45 ELSE 58
        IN  /\ text.res.tag = "Ok"
            /\ n = TargetLen(eui.type)
            /\ Len(str) = 3 * n - 1
            /\ \A i \in 1..n :
                   /\ str[3 * i - 2] = HexUpper[(eui.bytes[i] \div 16) + 1]
                   /\ str[3 * i - 1] = HexUpper[(eui.bytes[i] % 16) + 1]
                   /\ i < n => str[3 * i] = sep

C8_Witness ==
    /\ pc = "formatted"
    /\ text.fmt = "colon"
    /\ eui.type = "EUI64"
    /\ eui.bytes[1] = 0
    /\ eui.bytes[3] = 10
    /\ Len(text.res.val) = 23

\* C9: to_dot_fmt never indexes a chunk out of bounds: every chunk of two
\* has two bytes, and the result is N/2 groups of four upper-case hex digits,
\* group k being bytes 2k and 2k+1, joined by '.'.
C9_DotShape ==
    (pc = "formatted" /\ text.fmt = "dot") =>
        LET str == text.res.val
            g   == TargetLen(eui.type) \div 2
        IN  /\ text.res.tag = "Ok"
            /\ \A i \in DOMAIN chunks(eui.bytes, 2) :
                   Len(chunks(eui.bytes, 2)[i]) = 2
            /\ Len(chunks(eui.bytes, 2)) = g
            /\ Len(str) = 5 * g - 1
            /\ \A k \in 0..(g - 1) :
                   /\ str[5 * k + 1] = HexUpper[(eui.bytes[2 * k + 1] \div 16) + 1]
                   /\ str[5 * k + 2] = HexUpper[(eui.bytes[2 * k + 1] % 16) + 1]
                   /\ str[5 * k + 3] = HexUpper[(eui.bytes[2 * k + 2] \div 16) + 1]
                   /\ str[5 * k + 4] = HexUpper[(eui.bytes[2 * k + 2] % 16) + 1]
                   /\ k < g - 1 => str[5 * k + 5] = 46

C9_Witness ==
    /\ pc = "formatted"
    /\ text.fmt = "dot"
    /\ eui.type = "EUI48"
    /\ text.res.tag = "Ok"
    /\ Len(text.res.val) = 14

\* C10: try_from for target length N returns Ok exactly when the input
\* without its separators is 2N hex digits, byte i then being
\* 16 * value(digit 2i) + value(digit 2i+1); otherwise it returns one of the
\* three errors; the copy into the array never panics.
C10_TotalExact ==
    pc = "parsed" =>
        LET norm == Normalized(s)
            n    == TargetLen(parsed.type)
        IN  /\ parsed.res.tag \in {"Ok", "Err"}
            /\ parsed.res.tag = "Ok" <=> (AllHex(norm) /\ Len(norm) = 2 * n)
            /\ parsed.res.tag = "Ok" =>
                   /\ parsed.res.val.type = parsed.type
                   /\ Len(parsed.res.val.bytes) = n
                   /\ \A i \in 1..n :
                          parsed.res.val.bytes[i] =
                              16 * DigitValue(norm[2 * i - 1]) + DigitValue(norm[2 * i])
            /\ parsed.res.tag = "Err" => parsed.res.err \in Error

C10_Witness ==
    /\ pc = "parsed"
    /\ parsed.res.tag = "Ok"
    /\ parsed.type = "EUI48"
    /\ parsed.res.val.bytes = <<159, 142, 125, 108, 91, 74>>

============================================================================
